---- MODULE Spec2Model ----
(***************************************************************************)
(* Model of salt/states/netacl.py: the three state entry points term,      *)
(* filter and managed.  Each entry point computes the effective test flag,  *)
(* normalises falsy containers, calls its netacl.load_*_config execution    *)
(* module function once and hands the returned dictionary to                *)
(* salt.utils.napalm.loaded_ret.  The execution module (policy resolution,  *)
(* revision stamping, compile, diff, apply) and the napalm helpers are not  *)
(* part of the state module; they are modelled from the documentation.      *)
(***************************************************************************)
EXTENDS Integers, Sequences, FiniteSets, TLC

\* ------------------------------------------------------------------ bounds

\* Invocations the caller issues one after the other in one behaviour.
MaxInvocations == 2
\* Days the injected clock can show (1..MaxDate).
MaxDate == 2

\* ------------------------------------------------------------ value domains

Fns == {"term", "filter", "managed"}
Terms == {"t1", "t2"}

\* Python's None for scalar arguments.
None == "None"

\* A container argument (dict or list) or None: given = FALSE is None.
NoneDef == [given |-> FALSE, val |-> {}]
EmptyDict == [given |-> TRUE, val |-> {}]
Dict(s) == [given |-> TRUE, val |-> s]
NoneList == [given |-> FALSE, val |-> <<>>]
EmptyList == [given |-> TRUE, val |-> <<>>]
List(s) == [given |-> TRUE, val |-> s]

\* Python truthiness of a dict-or-None, a list-or-None and a string-or-None.
FalsyDict(x) == ~x.given \/ x.val = {}
FalsyList(x) == ~x.given \/ x.val = <<>>
Truthy(s) == s # None /\ s # ""

\* A rendered configuration: the terms of the effective definition under the
\* revision stamp's comment lines.  NoConfig: nothing of it on the device.
NoStamp == [id |-> None, no |-> None, date |-> 0]
NoConfig == [present |-> FALSE, terms |-> {}, stamp |-> NoStamp]

\* ---------------------------------------------------- loading the module

\* __virtualname__ = 'netacl'
virtualname == "netacl"

\* try: import aclgen; HAS_CAPIRCA = True / except ImportError: HAS_CAPIRCA
\* = False, and the same for napalm_base and HAS_NAPALM.
TryImport(installed) == installed

\* What __virtual__ returns: the module name, or (False, message).
VirtualEither(hasCapirca, hasNapalm) ==
    IF hasCapirca \/ hasNapalm
    THEN [ok |-> TRUE, name |-> virtualname, message |-> ""]
    ELSE [ok |-> FALSE, name |-> "",
          message |-> "The netacl state cannot be loaded: Please install capirca and napalm."]
Virtual(hasCapirca, hasNapalm) ==
    IF hasCapirca /\ hasNapalm
    THEN [ok |-> TRUE, name |-> virtualname, message |-> ""]
    ELSE [ok |-> FALSE, name |-> "",
          message |-> "The netacl state cannot be loaded: Please install capirca and napalm."]

\* The loader before the module is imported, on a minion where the Capirca
\* and NAPALM libraries are installed or not.
Unloaded(capirca, napalm) ==
    [capirca |-> capirca, napalm |-> napalm, step |-> "start",
     HAS_CAPIRCA |-> FALSE, HAS_NAPALM |-> FALSE,
     virtual |-> [ok |-> FALSE, name |-> "", message |-> ""]]

\* The loader once the module is imported and __virtual__ has returned.
Imported(l) ==
    [l EXCEPT !.step = "imported",
              !.HAS_CAPIRCA = TryImport(l.capirca),
              !.HAS_NAPALM = TryImport(l.napalm)]
Loaded(l) ==
    [l EXCEPT !.step = "virtual",
              !.virtual = Virtual(l.HAS_CAPIRCA, l.HAS_NAPALM)]

\* ------------------------------------------------- the entry points' code

\* test = __opts__['test'] or test
EffectiveTestArgOnly(optsTestFlag, test) == test
EffectiveTest(optsTestFlag, test) == optsTestFlag \/ test

\* if not filter_options: filter_options = []
NormFilterOptionsKept(fo) == fo
NormFilterOptionsDropped(fo) == EmptyList
NormFilterOptions(fo) == IF FalsyList(fo) THEN EmptyList ELSE fo

\* if not terms: terms = {}
NormTermsDropped(terms) == EmptyDict
NormTerms(terms) == IF FalsyDict(terms) THEN EmptyDict ELSE terms

\* if not filters: filters = {}
NormFilters(filters) == IF FalsyDict(filters) THEN EmptyDict ELSE filters

\* revision_id=revision_id if revision_id else name
RevisionIdNoDefault(revision_id, name) == revision_id
RevisionId(revision_id, name) == IF Truthy(revision_id) THEN revision_id ELSE name

\* ret = salt.utils.napalm.default_ret(name)
default_ret(name) ==
    [name |-> name, result |-> "False", comment |-> "",
     changes |-> [diff |-> <<>>, loaded_config |-> <<>>]]

\* The local variables of term before its call: the arguments, with test and
\* filter_options reassigned.
TermLocals(o, a) ==
    [a EXCEPT !.test = EffectiveTest(o, a.test),
              !.filter_options = NormFilterOptions(a.filter_options)]

\* The local variables of filter before its call.
FilterLocals(o, a) ==
    [a EXCEPT !.test = EffectiveTest(o, a.test),
              !.filter_options = NormFilterOptions(a.filter_options),
              !.definition = NormTerms(a.definition)]

\* The local variables of managed before its call.
ManagedLocals(o, a) ==
    [a EXCEPT !.test = EffectiveTest(o, a.test),
              !.definition = NormFilters(a.definition)]

Locals(o, a) ==
    CASE a.fn = "term" -> TermLocals(o, a)
      [] a.fn = "filter" -> FilterLocals(o, a)
      [] a.fn = "managed" -> ManagedLocals(o, a)

\* The keyword arguments of __salt__['netacl.load_term_config'](...).
TermKwargs(l) ==
    [fn |-> "netacl.load_term_config",
     filter_name |-> l.filter_name,
     term_name |-> l.term_name,
     filter_options |-> l.filter_options,
     pillar_key |-> l.pillar_key,
     pillarenv |-> l.pillarenv,
     saltenv |-> l.saltenv,
     merge_pillar |-> l.merge_pillar,
     revision_id |-> RevisionId(l.revision_id, l.name),
     revision_no |-> l.revision_no,
     revision_date |-> l.revision_date,
     revision_date_format |-> l.revision_date_format,
     source_service |-> l.source_service,
     destination_service |-> l.destination_service,
     test |-> l.test,
     commit |-> l.commit,
     debug |-> l.debug,
     definition |-> l.definition]

\* The keyword arguments of __salt__['netacl.load_filter_config'](...).
FilterKwargsMergeOn(l) ==
    [fn |-> "netacl.load_filter_config",
     filter_name |-> l.filter_name,
     filter_options |-> l.filter_options,
     definition |-> l.definition,
     pillar_key |-> l.pillar_key,
     pillarenv |-> l.pillarenv,
     saltenv |-> l.saltenv,
     merge_pillar |-> TRUE,
     only_lower_merge |-> l.only_lower_merge,
     revision_id |-> RevisionId(l.revision_id, l.name),
     revision_no |-> l.revision_no,
     revision_date |-> l.revision_date,
     revision_date_format |-> l.revision_date_format,
     test |-> l.test,
     commit |-> l.commit,
     debug |-> l.debug]
FilterKwargs(l) ==
    [fn |-> "netacl.load_filter_config",
     filter_name |-> l.filter_name,
     filter_options |-> l.filter_options,
     definition |-> l.definition,
     pillar_key |-> l.pillar_key,
     pillarenv |-> l.pillarenv,
     saltenv |-> l.saltenv,
     merge_pillar |-> l.merge_pillar,
     only_lower_merge |-> l.only_lower_merge,
     revision_id |-> RevisionId(l.revision_id, l.name),
     revision_no |-> l.revision_no,
     revision_date |-> l.revision_date,
     revision_date_format |-> l.revision_date_format,
     test |-> l.test,
     commit |-> l.commit,
     debug |-> l.debug]

\* The keyword arguments of __salt__['netacl.load_policy_config'](...).
ManagedKwargsCommitAlways(l) ==
    [fn |-> "netacl.load_policy_config",
     definition |-> l.definition,
     pillar_key |-> l.pillar_key,
     pillarenv |-> l.pillarenv,
     saltenv |-> l.saltenv,
     merge_pillar |-> l.merge_pillar,
     only_lower_merge |-> l.only_lower_merge,
     revision_id |-> RevisionId(l.revision_id, l.name),
     revision_no |-> l.revision_no,
     revision_date |-> l.revision_date,
     revision_date_format |-> l.revision_date_format,
     test |-> l.test,
     commit |-> TRUE,
     debug |-> l.debug]
ManagedKwargs(l) ==
    [fn |-> "netacl.load_policy_config",
     definition |-> l.definition,
     pillar_key |-> l.pillar_key,
     pillarenv |-> l.pillarenv,
     saltenv |-> l.saltenv,
     merge_pillar |-> l.merge_pillar,
     only_lower_merge |-> l.only_lower_merge,
     revision_id |-> RevisionId(l.revision_id, l.name),
     revision_no |-> l.revision_no,
     revision_date |-> l.revision_date,
     revision_date_format |-> l.revision_date_format,
     test |-> l.test,
     commit |-> l.commit,
     debug |-> l.debug]

\* The call the entry point l.fn makes.
CallKwargs(l) ==
    CASE l.fn = "term" -> TermKwargs(l)
      [] l.fn = "filter" -> FilterKwargs(l)
      [] l.fn = "managed" -> ManagedKwargs(l)

\* Where the entry point goes when its collaborator has returned: straight
\* to "return loaded_ret(...)", whatever the collaborator returned.
AfterCallRetry(l) == IF l.result THEN "shaping" ELSE "entered"
AfterCall(l) == "shaping"

\* ------------------------------------- the collaborators (from documentation)

\* salt.utils.napalm.loaded_ret: the state's result record from the loaded
\* dictionary.  result is "True", "False" or "None".
loaded_ret(r, l, test, debug) ==
    LET base == [r EXCEPT !.comment = l.comment]
        ch == [diff |-> l.diff,
               loaded_config |-> IF debug THEN l.loaded_config ELSE <<>>]
    IN  IF ~l.result THEN base
        ELSE IF ~l.already_configured
             THEN IF test THEN [base EXCEPT !.result = "None", !.changes = ch]
                  ELSE [base EXCEPT !.result = "True", !.changes = ch]
             ELSE [base EXCEPT !.result = "True"]

\* return salt.utils.napalm.loaded_ret(ret, loaded, test, debug)
ShapeDefaultRet(r, l, test, debug) == r
ShapeDebugAlways(r, l, test, debug) == loaded_ret(r, l, test, TRUE)
ShapeTestOff(r, l, test, debug) == loaded_ret(r, l, FALSE, debug)
Shape(r, l, test, debug) == loaded_ret(r, l, test, debug)

\* The outcome a result record stands for.
Outcome(r) ==
    IF r.result = "False" THEN "FAILED"
    ELSE IF r.changes.diff = <<>> THEN "NO_OP" ELSE "CHANGED"

\* Merging the explicit definition with the pillar's: the explicit terms, and
\* the pillar's terms that the explicit definition does not have.
Merge(explicit, pillar) == explicit \cup pillar

\* The revision comment lines: id, number and, when asked for, the date.
Stamp(k, today) ==
    [id |-> k.revision_id, no |-> k.revision_no,
     date |-> IF k.revision_date THEN today ELSE 0]

\* The configuration generated for the effective definition and its stamp.
Render(terms, st) == [present |-> TRUE, terms |-> terms, stamp |-> st]

\* The address family of a term's address selectors: t1 has IPv4 addresses
\* only, t6 IPv6 addresses only, the others none or both.
TermFamily(t) ==
    CASE t = "t1" -> "inet"
      [] t = "t6" -> "inet6"
      [] OTHER -> "any"

\* The address family the filter options scope the filter to.
Scope(options) ==
    IF \E i \in DOMAIN options : options[i] = "inet6" THEN "inet6"
    ELSE IF \E i \in DOMAIN options : options[i] = "inet" THEN "inet"
    ELSE "any"

\* The terms the compiler renders: a term of the other family than the
\* filter's is left out.
Included(terms, options) ==
    {t \in terms :
        Scope(options) = "any" \/ TermFamily(t) \in {"any", Scope(options)}}

\* The textual diff of the candidate against the running configuration.
Diff(running, candidate) ==
    IF running = candidate THEN <<>> ELSE <<running, candidate>>

\* ---------------------------------------------------------- the caller's input

\* The explicit definition: terms (filter), filters (managed), **term_fields
\* (term; keyword arguments are a dict, never None).
ExplicitDefs == {NoneDef, EmptyDict, Dict({"t1"}), Dict({"t1", "t2"})}

Args ==
    { a \in [fn : Fns,
             name : {"my-state"},
             filter_name : {"my-filter"},
             term_name : {"my-term"},
             filter_options : {NoneList},
             definition : ExplicitDefs,
             pillar_key : {"acl"},
             pillarenv : {None},
             saltenv : {None},
             merge_pillar : BOOLEAN,
             only_lower_merge : {FALSE},
             revision_id : {None, "rev-1"},
             revision_no : {None},
             revision_date : BOOLEAN,
             revision_date_format : {"%Y/%m/%d"},
             test : BOOLEAN,
             commit : BOOLEAN,
             debug : BOOLEAN,
             source_service : {None},
             destination_service : {None}] :
        a.fn = "term" => a.definition.given }

\* The pillar value at pillar_key.
StoreValues == {{}, {"t2"}}

\* The arguments when the caller passes only name, filter_name and term_name:
\* the defaults of the signatures.
DefaultArgs(fn) ==
    [fn |-> fn,
     name |-> "my-state",
     filter_name |-> "my-filter",
     term_name |-> "my-term",
     filter_options |-> NoneList,
     definition |-> IF fn = "term" THEN EmptyDict ELSE NoneDef,
     pillar_key |-> "acl",
     pillarenv |-> None,
     saltenv |-> None,
     merge_pillar |-> FALSE,
     only_lower_merge |-> FALSE,
     revision_id |-> None,
     revision_no |-> None,
     revision_date |-> TRUE,
     revision_date_format |-> "%Y/%m/%d",
     test |-> FALSE,
     commit |-> TRUE,
     debug |-> FALSE,
     source_service |-> None,
     destination_service |-> None]

\* The values a caller passes for each argument.
ArgValues(fn) ==
    [name |-> {"my-state", ""},
     filter_name |-> {"my-filter", "other-filter"},
     term_name |-> {"my-term", "other-term"},
     filter_options |-> {NoneList, EmptyList, List(<<"inet6">>)},
     definition |-> IF fn = "term" THEN ExplicitDefs \ {NoneDef}
                    ELSE ExplicitDefs,
     pillar_key |-> {"acl", "firewall"},
     pillarenv |-> {None, "prod"},
     saltenv |-> {None, "base"},
     merge_pillar |-> BOOLEAN,
     only_lower_merge |-> BOOLEAN,
     revision_id |-> {None, "", "rev-1"},
     revision_no |-> {None, "5"},
     revision_date |-> BOOLEAN,
     revision_date_format |-> {"%Y/%m/%d", "%d-%m-%Y"},
     test |-> BOOLEAN,
     commit |-> BOOLEAN,
     debug |-> BOOLEAN,
     source_service |-> {None, "ssh"},
     destination_service |-> {None, "ntp"}]

\* The argument records that pass one more argument than the records in A.
PassOneMore(A, fn) ==
    UNION { UNION { {[a EXCEPT ![f] = v] : v \in ArgValues(fn)[f]} :
                    f \in DOMAIN ArgValues(fn) } : a \in A }

\* Every value of every argument, up to two arguments passed at a time.
ArgsWide ==
    UNION { PassOneMore(PassOneMore({DefaultArgs(fn)}, fn), fn) : fn \in Fns }

\* ------------------------------------------------------------------- state

VARIABLES
    args,           \* the arguments of the state being applied
    store,          \* the pillar value at pillar_key
    date,           \* the day the clock shows
    device,         \* the device's running configuration
    optsTest,       \* __opts__['test'] of the invocation
    pc,             \* idle, entered, called, shaping, done
    locals,         \* the entry point's local variables
    ret,            \* the entry point's ret
    call,           \* the keyword arguments of the collaborator call
    calls,          \* collaborator calls of this invocation
    phase,          \* NONE, RESOLVED, NORMALIZED, STAMPED, NO_OP, CHANGED, FAILED
    trace,          \* the phases this invocation has been in, in order
    effective,      \* the effective definition
    stamp,          \* the revision stamp
    loaded,         \* the dictionary the collaborator returned
    err,            \* the error class of a failed call
    storeLookups,   \* pillar lookups of this invocation
    deviceContacts, \* device round-trips of this invocation
    shaped,         \* the test and debug given to loaded_ret
    devBefore,      \* the running configuration when the invocation began
    prev,           \* what the invocation before this one did
    inv,            \* invocations begun
    loader,         \* the loading of the netacl state module
    conc            \* invocations issued side by side against one device

vars == <<args, store, date, device, optsTest, pc, locals, ret, call, calls,
          phase, trace, effective, stamp, loaded, err, storeLookups,
          deviceContacts, shaped, devBefore, prev, inv, loader, conc>>

NoLoaded ==
    [result |-> FALSE, already_configured |-> FALSE, comment |-> "",
     diff |-> <<>>, loaded_config |-> <<>>]
NoPrev == [any |-> FALSE, committed |-> FALSE, effective |-> {}]
NoShaped == [done |-> FALSE, test |-> FALSE, debug |-> FALSE]
NoCall == [fn |-> "none"]

\* The state before the first invocation, for the arguments in A and the
\* pillar values in S.
InitFrom(A, S) ==
    /\ args \in A
    /\ store \in S
    /\ date = 1
    /\ device = NoConfig
    /\ optsTest = FALSE
    /\ pc = "idle"
    /\ locals = args
    /\ ret = default_ret(args.name)
    /\ call = NoCall
    /\ calls = 0
    /\ phase = "NONE"
    /\ trace = <<>>
    /\ effective = {}
    /\ stamp = NoStamp
    /\ loaded = NoLoaded
    /\ err = None
    /\ storeLookups = 0
    /\ deviceContacts = 0
    /\ shaped = NoShaped
    /\ devBefore = NoConfig
    /\ prev = NoPrev
    /\ inv = 0

\* No invocations side by side.
NoConc == [on |-> FALSE]

\* The module is loaded on a minion with both libraries.
Available == Loaded(Imported(Unloaded(TRUE, TRUE)))

Init ==
    /\ InitFrom(Args, StoreValues)
    /\ loader = Available
    /\ conc = NoConc

\* ----------------------------------------------------------- the entry point

\* What the invocation that is ending did, for the invocation after it.
Summary ==
    IF pc = "done"
    THEN [any |-> TRUE,
          committed |-> ~call.test /\ call.commit /\ ret.result = "True",
          effective |-> effective]
    ELSE NoPrev

\* The caller applies the state: ret = default_ret(name), the test flag and
\* the falsy containers are reassigned.
Invoke ==
    /\ loader.step = "virtual" /\ loader.virtual.name = virtualname
    /\ pc \in {"idle", "done"}
    /\ inv < MaxInvocations
    /\ \E o \in BOOLEAN :
        /\ optsTest' = o
        /\ locals' = Locals(o, args)
    /\ ret' = default_ret(args.name)
    /\ pc' = "entered"
    /\ inv' = inv + 1
    /\ prev' = Summary
    /\ devBefore' = device
    /\ call' = NoCall
    /\ calls' = 0
    /\ phase' = "NONE"
    /\ trace' = <<>>
    /\ effective' = {}
    /\ stamp' = NoStamp
    /\ loaded' = NoLoaded
    /\ err' = None
    /\ storeLookups' = 0
    /\ deviceContacts' = 0
    /\ shaped' = NoShaped
    /\ UNCHANGED <<loader, conc>>
    /\ UNCHANGED <<args, store, date, device>>

\* loaded = __salt__['netacl.load_*_config'](...): the call is made.
Call ==
    /\ pc = "entered"
    /\ call' = CallKwargs(locals)
    /\ calls' = calls + 1
    /\ pc' = "called"
    /\ phase' = "NONE"
    /\ loaded' = NoLoaded
    /\ err' = None
    /\ UNCHANGED <<loader, conc>>
    /\ UNCHANGED <<args, store, date, device, optsTest, locals, ret, trace,
                   effective, stamp, storeLookups, deviceContacts, shaped,
                   devBefore, prev, inv>>

\* return salt.utils.napalm.loaded_ret(ret, loaded, test, debug)
Return ==
    /\ pc = "shaping"
    /\ ret' = Shape(ret, loaded, locals.test, locals.debug)
    /\ shaped' = [done |-> TRUE, test |-> locals.test, debug |-> locals.debug]
    /\ pc' = "done"
    /\ UNCHANGED <<loader, conc>>
    /\ UNCHANGED <<args, store, date, device, optsTest, locals, call, calls,
                   phase, trace, effective, stamp, loaded, err, storeLookups,
                   deviceContacts, devBefore, prev, inv>>

\* The clock moves to the next day between two invocations.
Tick ==
    /\ pc \in {"idle", "done"}
    /\ date < MaxDate
    /\ date' = date + 1
    /\ UNCHANGED <<loader, conc>>
    /\ UNCHANGED <<args, store, device, optsTest, pc, locals, ret, call, calls,
                   phase, trace, effective, stamp, loaded, err, storeLookups,
                   deviceContacts, shaped, devBefore, prev, inv>>

\* ----------------------------------------- the collaborator, step by step

\* The collaborator moves to phase p.
Advance(p) ==
    /\ phase' = p
    /\ trace' = Append(trace, p)

\* The collaborator returns the dictionary l to the entry point.
Returns(l) ==
    /\ loaded' = l
    /\ pc' = AfterCall(l)

\* The collaborator's call fails with error class e and the diagnostic detail.
Fails(e, detail) ==
    /\ Advance("FAILED")
    /\ err' = e
    /\ Returns([NoLoaded EXCEPT !.comment = detail])

\* Policy source resolver: without merge_pillar the explicit definition is
\* used as it is and the pillar is not read; with merge_pillar the pillar
\* value is fetched and merged.
Resolve ==
    /\ pc = "called"
    /\ phase = "NONE"
    /\ IF call.merge_pillar
       THEN /\ storeLookups' = storeLookups + 1
            /\ effective' = Merge(call.definition.val, store)
       ELSE /\ storeLookups' = storeLookups
            /\ effective' = call.definition.val
    /\ Advance("RESOLVED")
    /\ UNCHANGED <<loader, conc>>
    /\ UNCHANGED <<args, store, date, device, optsTest, pc, locals, ret, call,
                   calls, stamp, loaded, err, deviceContacts, shaped,
                   devBefore, prev, inv>>

\* The pillar cannot be fetched.
RetrievalError ==
    /\ pc = "called"
    /\ phase = "NONE"
    /\ call.merge_pillar
    /\ storeLookups' = storeLookups + 1
    /\ Fails("RetrievalError", "Unable to fetch the pillar.")
    /\ UNCHANGED <<loader, conc>>
    /\ UNCHANGED <<args, store, date, device, optsTest, locals, ret, call,
                   calls, effective, stamp, deviceContacts, shaped, devBefore,
                   prev, inv>>

\* Policy normalizer: the term fields take their canonical shape.
Normalize ==
    /\ pc = "called"
    /\ phase = "RESOLVED"
    /\ Advance("NORMALIZED")
    /\ UNCHANGED <<loader, conc>>
    /\ UNCHANGED <<args, store, date, device, optsTest, pc, locals, ret, call,
                   calls, effective, stamp, loaded, err, storeLookups,
                   deviceContacts, shaped, devBefore, prev, inv>>

\* A field cannot be normalized (an unknown service name, a bad port range).
ValidationError ==
    /\ pc = "called"
    /\ phase = "RESOLVED"
    /\ Fails("ValidationError", "Invalid term field.")
    /\ UNCHANGED <<loader, conc>>
    /\ UNCHANGED <<args, store, date, device, optsTest, locals, ret, call,
                   calls, effective, stamp, storeLookups, deviceContacts,
                   shaped, devBefore, prev, inv>>

\* Revision stamper.
StampRevision ==
    /\ pc = "called"
    /\ phase = "NORMALIZED"
    /\ stamp' = Stamp(call, date)
    /\ Advance("STAMPED")
    /\ UNCHANGED <<loader, conc>>
    /\ UNCHANGED <<args, store, date, device, optsTest, pc, locals, ret, call,
                   calls, effective, loaded, err, storeLookups,
                   deviceContacts, shaped, devBefore, prev, inv>>

\* The compiler cannot render the definition: the device is not contacted.
CompileError ==
    /\ pc = "called"
    /\ phase = "STAMPED"
    /\ Fails("CompileError", "Unable to generate the configuration.")
    /\ UNCHANGED <<loader, conc>>
    /\ UNCHANGED <<args, store, date, device, optsTest, locals, ret, call,
                   calls, effective, stamp, storeLookups, deviceContacts,
                   shaped, devBefore, prev, inv>>

\* The device rejects the candidate configuration.
DeviceRejects ==
    /\ pc = "called"
    /\ phase = "STAMPED"
    /\ deviceContacts' = deviceContacts + 1
    /\ Fails("ApplyError", "Unable to load the configuration.")
    /\ UNCHANGED <<loader, conc>>
    /\ UNCHANGED <<args, store, date, device, optsTest, locals, ret, call,
                   calls, effective, stamp, storeLookups, shaped, devBefore,
                   prev, inv>>

\* The filter options of the call (a policy's options are in its filters).
CallOptions ==
    IF "filter_options" \in DOMAIN call THEN call.filter_options.val ELSE <<>>

\* The candidate configuration: the terms of the effective definition that
\* the filter's address family does not exclude, under the revision stamp.
Candidate == Render(Included(effective, CallOptions), stamp)

\* Every term of the definition is of the address family the filter options
\* exclude: there is no policy left to generate.
FamilyMismatch ==
    /\ pc = "called"
    /\ phase = "RESOLVED"
    /\ effective # {}
    /\ Included(effective, CallOptions) = {}
    /\ Fails("ValidationError", "No term of the filter's address family.")
    /\ UNCHANGED <<loader, conc>>
    /\ UNCHANGED <<args, store, date, device, optsTest, locals, ret, call,
                   calls, effective, stamp, storeLookups, deviceContacts,
                   shaped, devBefore, prev, inv>>

\* The candidate does not differ from the running configuration.
NoChange ==
    /\ pc = "called"
    /\ phase = "STAMPED"
    /\ Diff(device, Candidate) = <<>>
    /\ deviceContacts' = deviceContacts + 1
    /\ Advance("NO_OP")
    /\ Returns([result |-> TRUE, already_configured |-> TRUE,
                comment |-> "Already configured.", diff |-> <<>>,
                loaded_config |-> <<Candidate>>])
    /\ UNCHANGED <<loader, conc>>
    /\ UNCHANGED <<args, store, date, device, optsTest, locals, ret, call,
                   calls, effective, stamp, err, storeLookups, shaped,
                   devBefore, prev, inv>>

\* The candidate differs and is discarded: a dry run, or commit is off.
Discard ==
    /\ pc = "called"
    /\ phase = "STAMPED"
    /\ Diff(device, Candidate) # <<>>
    /\ call.test \/ ~call.commit
    /\ deviceContacts' = deviceContacts + 1
    /\ Advance("CHANGED")
    /\ Returns([result |-> TRUE, already_configured |-> FALSE,
                comment |-> IF call.test
                            THEN "Testing mode: Configuration discarded."
                            ELSE "Configuration not committed.",
                diff |-> Diff(device, Candidate),
                loaded_config |-> <<Candidate>>])
    /\ UNCHANGED <<loader, conc>>
    /\ UNCHANGED <<args, store, date, device, optsTest, locals, ret, call,
                   calls, effective, stamp, err, storeLookups, shaped,
                   devBefore, prev, inv>>

\* The candidate differs and is committed.
Commit ==
    /\ pc = "called"
    /\ phase = "STAMPED"
    /\ Diff(device, Candidate) # <<>>
    /\ ~call.test /\ call.commit
    /\ deviceContacts' = deviceContacts + 1
    /\ device' = Candidate
    /\ Advance("CHANGED")
    /\ Returns([result |-> TRUE, already_configured |-> FALSE,
                comment |-> "Configuration changed!",
                diff |-> Diff(device, Candidate),
                loaded_config |-> <<Candidate>>])
    /\ UNCHANGED <<loader, conc>>
    /\ UNCHANGED <<args, store, date, optsTest, locals, ret, call, calls,
                   effective, stamp, err, storeLookups, shaped, devBefore,
                   prev, inv>>

\* The commit fails and the device rolls the candidate back.
CommitFails ==
    /\ pc = "called"
    /\ phase = "STAMPED"
    /\ Diff(device, Candidate) # <<>>
    /\ ~call.test /\ call.commit
    /\ deviceContacts' = deviceContacts + 1
    /\ Fails("ApplyError", "Unable to commit.")
    /\ UNCHANGED <<loader, conc>>
    /\ UNCHANGED <<args, store, date, device, optsTest, locals, ret, call,
                   calls, effective, stamp, storeLookups, shaped, devBefore,
                   prev, inv>>

Next ==
    \/ Invoke
    \/ Call
    \/ Return
    \/ Tick
    \/ Resolve
    \/ RetrievalError
    \/ Normalize
    \/ ValidationError
    \/ StampRevision
    \/ CompileError
    \/ DeviceRejects
    \/ NoChange
    \/ Discard
    \/ Commit
    \/ CommitFails

Spec == Init /\ [][Next]_vars

\* The module is imported: the two libraries are imported, or not.
ImportModule ==
    /\ loader.step = "start"
    /\ loader' = Imported(loader)
    /\ UNCHANGED <<args, store, date, device, optsTest, pc, locals, ret, call,
                   calls, phase, trace, effective, stamp, loaded, err,
                   storeLookups, deviceContacts, shaped, devBefore, prev, inv,
                   conc>>

\* The loader calls __virtual__().
LoadModule ==
    /\ loader.step = "imported"
    /\ loader' = Loaded(loader)
    /\ UNCHANGED <<args, store, date, device, optsTest, pc, locals, ret, call,
                   calls, phase, trace, effective, stamp, loaded, err,
                   storeLookups, deviceContacts, shaped, devBefore, prev, inv,
                   conc>>

\* Loading the module and then applying states, on minions with and without
\* the libraries.
ArgsLoad == UNION { PassOneMore({DefaultArgs(fn)}, fn) : fn \in Fns }
InitLoad ==
    /\ InitFrom(ArgsLoad, {{"t2"}})
    /\ loader \in {Unloaded(c, n) : c \in BOOLEAN, n \in BOOLEAN}
    /\ conc = NoConc
NextLoad ==
    \/ ImportModule
    \/ LoadModule
    \/ Next
SpecLoad == InitLoad /\ [][NextLoad]_vars

\* Filters scoped to an address family, with terms of either family.
FamilyDefs ==
    {Dict({"t1"}), Dict({"t6"}), Dict({"t1", "t2"}), Dict({"t6", "t2"}),
     Dict({"t1", "t6"})}
ArgsFamily ==
    {[DefaultArgs(fn) EXCEPT !.definition = d, !.filter_options = o,
                             !.test = t, !.merge_pillar = m] :
        fn \in Fns, d \in FamilyDefs,
        o \in {NoneList, List(<<"inet6">>), List(<<"inet">>)},
        t \in BOOLEAN, m \in BOOLEAN}
InitFamily ==
    /\ InitFrom(ArgsFamily, {{"t2"}})
    /\ loader = Available
    /\ conc = NoConc
NextFamily ==
    \/ FamilyMismatch
    \/ Next
SpecFamily == InitFamily /\ [][NextFamily]_vars

\* The entry points up to their call, over every value of every argument.
InitFwd ==
    /\ InitFrom(ArgsWide, {{}})
    /\ loader = Available
    /\ conc = NoConc
NextFwd ==
    \/ Invoke
    \/ Call
SpecFwd == InitFwd /\ [][NextFwd]_vars

\* ------------------------------------------------------------------ claims

Terminal == {"NO_OP", "CHANGED", "FAILED"}
InTrace(p) == \E i \in DOMAIN trace : trace[i] = p
\* The entry point has made its call.
HasCalled == pc \in {"called", "shaping", "done"}
\* The invocation is a dry run: the global test flag or the test argument.
DryRun == optsTest \/ args.test

\* C1: in term, filter and managed the effective dry-run flag is the global
\* test flag OR the test argument; that one value is the test forwarded to
\* the collaborator and the test given to loaded_ret, so that with the global
\* flag set the invocation is a dry run (the device stays as it was) even
\* when test=False and commit=True were passed.
C1_EffectiveTest ==
    /\ HasCalled => call.test = (optsTest \/ args.test)
    /\ shaped.done => shaped.test = (optsTest \/ args.test)
    /\ (optsTest /\ pc # "idle") => device = devBefore
C1_Witness ==
    /\ pc = "done"
    /\ optsTest /\ ~args.test /\ args.commit
    /\ call.test /\ shaped.test
    /\ ret.result = "None"

C3_CommitOnly ==
    device # devBefore => (~(optsTest \/ args.test) /\ args.commit)
C3_Witness ==
    /\ pc = "done" /\ device # devBefore
    /\ ~optsTest /\ ~args.test /\ args.commit

\* C4: after a committing invocation with definition D succeeded, a second
\* invocation with the same D against the device as the first left it ends
\* no-op with an empty diff and does not modify the device.  (Stated for a
\* second invocation that is not itself failed by the pillar, the compiler
\* or the device.)
C4_Idempotent ==
    (pc = "done" /\ prev.committed /\ phase # "FAILED"
        /\ prev.effective = effective)
    => (Outcome(ret) = "NO_OP" /\ ret.changes.diff = <<>>
        /\ device = devBefore)
\* What holds instead: the second invocation is a no-op when its revision
\* stamp is the one the device carries.
IdempotentUnderSameStamp ==
    (pc = "done" /\ prev.committed /\ phase # "FAILED"
        /\ prev.effective = effective /\ stamp = devBefore.stamp)
    => (Outcome(ret) = "NO_OP" /\ ret.changes.diff = <<>>
        /\ device = devBefore)

\* C5: whenever an invocation ends failed, the result carries the error
\* detail and the device's running configuration is the one before the
\* invocation: no partially applied configuration is observable.
C5_FailedLeavesDevice ==
    /\ phase = "FAILED" => device = devBefore
    /\ (pc = "done" /\ Outcome(ret) = "FAILED")
       => (ret.comment # "" /\ device = devBefore)
C5_Witness ==
    /\ pc = "done" /\ Outcome(ret) = "FAILED"
    /\ err = "ApplyError" /\ ret.comment = "Unable to commit."
    /\ device = devBefore

\* C6 as stated: every invocation that ends has moved through RESOLVED,
\* NORMALIZED and STAMPED, in that order, before its terminal phase.
C6_Original ==
    phase \in Terminal
    => trace = <<"RESOLVED", "NORMALIZED", "STAMPED", phase>>
PhaseEdges ==
    {<<"NONE", "RESOLVED">>, <<"RESOLVED", "NORMALIZED">>,
     <<"NORMALIZED", "STAMPED">>, <<"STAMPED", "NO_OP">>,
     <<"STAMPED", "CHANGED">>, <<"STAMPED", "FAILED">>,
     <<"NONE", "FAILED">>, <<"RESOLVED", "FAILED">>}
\* C6 amended: within an invocation the phases are taken in the order
\* RESOLVED, NORMALIZED, STAMPED and then one of NO_OP, CHANGED, FAILED,
\* except that a failed resolution or normalization goes to FAILED directly;
\* a terminal phase has no outgoing transition and the collaborator is not
\* called again.
C6_PhaseOrder ==
    [][inv' = inv =>
        /\ phase' # phase => <<phase, phase'>> \in PhaseEdges
        /\ phase \in Terminal => (phase' = phase /\ calls' = calls)]_vars
C6_Witness ==
    /\ pc = "done" /\ calls = 1
    /\ trace = <<"RESOLVED", "NORMALIZED", "STAMPED", "CHANGED">>

\* C7: an invocation of term, filter or managed makes at most one pillar
\* lookup and at most one device round-trip; the entry point calls its
\* netacl.load_*_config collaborator exactly once, whatever the outcome.
C7_OneCall ==
    /\ calls <= 1 /\ storeLookups <= 1 /\ deviceContacts <= 1
    /\ HasCalled => calls = 1
C7_Witness ==
    /\ pc = "done" /\ calls = 1 /\ storeLookups = 1 /\ deviceContacts = 1
    /\ phase = "FAILED"

\* C8: for every non-empty explicit definition D, with merge_pillar false
\* the effective definition is exactly D and the pillar is never read during
\* the invocation.
C8_ExplicitAsIs ==
    (HasCalled /\ ~FalsyDict(args.definition) /\ ~args.merge_pillar)
    => /\ storeLookups = 0
       /\ InTrace("RESOLVED") => effective = args.definition.val
C8_Witness ==
    /\ pc = "done" /\ ~args.merge_pillar
    /\ args.definition.val = {"t1"} /\ store = {"t2"}
    /\ effective = {"t1"} /\ storeLookups = 0

\* C9 as stated: when terms (filter) or filters (managed) is not given or
\* empty, the effective definition is the pillar value, whatever
\* merge_pillar is.
C9_Original ==
    (args.fn \in {"filter", "managed"} /\ FalsyDict(args.definition)
        /\ InTrace("RESOLVED"))
    => effective = store
\* C9 amended: when terms or filters is not given or empty, the effective
\* definition is the pillar value if merge_pillar is true; with merge_pillar
\* false the pillar is not read and the definition stays empty.
C9_EmptyFallsBack ==
    (args.fn \in {"filter", "managed"} /\ FalsyDict(args.definition)
        /\ InTrace("RESOLVED"))
    => IF args.merge_pillar
       THEN effective = store /\ storeLookups = 1
       ELSE effective = {} /\ storeLookups = 0
C9_Witness ==
    /\ pc = "done" /\ args.fn = "managed" /\ ~args.definition.given
    /\ args.merge_pillar /\ store = {"t2"} /\ effective = {"t2"}

\* C10: an invocation that ends with a RetrievalError or a CompileError has
\* not contacted the device at any point, and is not retried.
C10_NoDeviceContact ==
    (phase = "FAILED" /\ err \in {"RetrievalError", "CompileError"})
    => (deviceContacts = 0 /\ calls = 1)
C10_Witness ==
    /\ pc = "done" /\ err = "CompileError" /\ Outcome(ret) = "FAILED"
    /\ deviceContacts = 0 /\ storeLookups = 1

\* C11: the result record holds the raw rendered configuration (the loaded
\* configuration under changes) only when debug was requested: with
\* debug = false the changes never hold it, whatever the outcome.
C11_LoadedOnlyOnDebug ==
    /\ ~args.debug => ret.changes.loaded_config = <<>>
    /\ ret.changes.loaded_config # <<>>
       => (args.debug /\ pc = "done"
           /\ ret.changes.loaded_config = loaded.loaded_config)
C11_Witness ==
    /\ pc = "done" /\ args.debug /\ Outcome(ret) = "CHANGED"
    /\ ret.changes.loaded_config = <<Render(effective, stamp)>>

\* C12: every result record has a human-readable comment, and every dry-run
\* invocation that computed a change returns result None with the comment
\* saying that the configuration was discarded, and the diff under changes.
C12_CommentAndDiscard ==
    /\ pc = "done" => ret.comment # ""
    /\ (pc = "done" /\ DryRun /\ phase = "CHANGED")
       => /\ ret.result = "None"
          /\ ret.comment = "Testing mode: Configuration discarded."
          /\ ret.changes.diff = <<devBefore, Render(effective, stamp)>>
C12_Witness ==
    /\ pc = "done" /\ optsTest /\ args.commit /\ phase = "CHANGED"
    /\ ret.result = "None"
    /\ ret.comment = "Testing mode: Configuration discarded."
    /\ ret.changes.diff # <<>>

\* C13: the revision id forwarded to the collaborator is the caller's
\* revision_id when one is given and the invocation name otherwise, so it is
\* never empty or None as long as name is not; revision_no, revision_date
\* and revision_date_format are forwarded unchanged.
C13_RevisionForwarded ==
    HasCalled
    => /\ call.revision_id = IF args.revision_id \in {None, ""}
                             THEN args.name ELSE args.revision_id
       /\ args.name # "" => call.revision_id \notin {None, ""}
       /\ call.revision_no = args.revision_no
       /\ call.revision_date = args.revision_date
       /\ call.revision_date_format = args.revision_date_format
C13_Witness ==
    /\ pc = "called" /\ args.revision_id = "" /\ args.revision_no = "5"
    /\ call.revision_id = "my-state" /\ call.revision_no = "5"

\* C16: the collaborator never receives None for filter_options, terms or
\* filters: a missing or empty filter_options is forwarded as the empty list
\* (term, filter), missing or empty terms (filter) and filters (managed) as
\* the empty mapping; every other argument is forwarded with the value the
\* caller passed.
C16_Forwarded ==
    HasCalled
    => /\ args.fn \in {"term", "filter"}
          => /\ call.filter_options.given
             /\ call.filter_options.val = args.filter_options.val
             /\ call.filter_name = args.filter_name
       /\ args.fn \in {"filter", "managed"}
          => /\ call.definition.given
             /\ call.definition.val = args.definition.val
             /\ call.only_lower_merge = args.only_lower_merge
       /\ args.fn = "term"
          => /\ call.definition = args.definition
             /\ call.term_name = args.term_name
             /\ call.source_service = args.source_service
             /\ call.destination_service = args.destination_service
       /\ call.pillar_key = args.pillar_key
       /\ call.pillarenv = args.pillarenv
       /\ call.saltenv = args.saltenv
       /\ call.merge_pillar = args.merge_pillar
       /\ call.commit = args.commit
       /\ call.debug = args.debug
C16_Witness ==
    /\ pc = "called" /\ args.fn = "filter"
    /\ ~args.filter_options.given /\ ~args.definition.given
    /\ call.filter_options = EmptyList /\ call.definition = EmptyDict
    /\ args.pillar_key = "firewall" /\ call.pillar_key = "firewall"
    /\ args.only_lower_merge /\ call.only_lower_merge

\* C17: the netacl state module is made available (__virtual__ returns the
\* name 'netacl', and states can be applied) if and only if both the Capirca
\* and the NAPALM library could be imported; when either is missing
\* __virtual__ returns (False, message) and never the module name.
C17_Virtual ==
    /\ loader.step = "virtual"
       => /\ (loader.virtual.name = "netacl")
             <=> (loader.capirca /\ loader.napalm)
          /\ ~(loader.capirca /\ loader.napalm)
             => /\ ~loader.virtual.ok
                /\ loader.virtual.message # ""
                /\ loader.virtual.name # "netacl"
    /\ pc # "idle" => (loader.capirca /\ loader.napalm)
C17_Witness ==
    /\ loader.step = "virtual" /\ loader.capirca /\ ~loader.napalm
    /\ ~loader.virtual.ok /\ loader.virtual.message # ""
    /\ pc = "idle"

\* The filter options the caller passed to term or filter.
ArgOptions ==
    IF args.fn \in {"term", "filter"} /\ args.filter_options.given
    THEN args.filter_options.val ELSE <<>>
\* The terms of the effective definition that are of the other address
\* family than the one the caller's filter options name, and the others.
OtherFamily ==
    {t \in effective :
        \/ (\E i \in DOMAIN ArgOptions : ArgOptions[i] = "inet6")
            /\ TermFamily(t) = "inet"
        \/ (\E i \in DOMAIN ArgOptions : ArgOptions[i] = "inet")
            /\ ~(\E i \in DOMAIN ArgOptions : ArgOptions[i] = "inet6")
            /\ TermFamily(t) = "inet6"}
Remaining == effective \ OtherFamily

Workers == {"w1", "w2"}
ConcDefs == {{"t1"}, {"t2"}}

\* An invocation that is not under way holds nothing: the module keeps no
\* state of its own between invocations.
IdleWorker == [pc |-> "idle", candidate |-> NoConfig, diff |-> <<>>]
NoReport == [serialized |-> FALSE, reported |-> <<>>, actual |-> <<>>]

\* Some invocation has computed its diff and not applied it yet.
Busy == \E w \in Workers : conc.w[w].pc # "idle"

\* The caller's discipline: with serialized access an invocation against the
\* device starts only when no other one is under way.
MayStartAlways(w) == TRUE
MayStart(w) == conc.serialize => ~Busy

\* The caller starts or stops serializing its access to the device.
SwitchMode ==
    /\ conc.on
    /\ ~Busy
    /\ conc' = [conc EXCEPT !.serialize = ~conc.serialize]
    /\ UNCHANGED <<args, store, date, device, optsTest, pc, locals, ret,
                   call, calls, phase, trace, effective, stamp, loaded, err,
                   storeLookups, deviceContacts, shaped, devBefore, prev,
                   inv, loader>>

\* An invocation compiles its definition and diffs the candidate against the
\* configuration the device runs at that moment.
ConcDiff ==
    /\ conc.on
    /\ \E w \in Workers, d \in ConcDefs :
        /\ conc.w[w].pc = "idle"
        /\ MayStart(w)
        /\ conc' = [conc EXCEPT !.w[w] =
                       [pc |-> "diffed",
                        candidate |-> Render(d, NoStamp),
                        diff |-> Diff(device, Render(d, NoStamp))]]
    /\ UNCHANGED <<args, store, date, device, optsTest, pc, locals, ret,
                   call, calls, phase, trace, effective, stamp, loaded, err,
                   storeLookups, deviceContacts, shaped, devBefore, prev,
                   inv, loader>>

\* The invocation commits its candidate and reports the diff it computed.
ConcApply ==
    /\ conc.on
    /\ \E w \in Workers :
        /\ conc.w[w].pc = "diffed"
        /\ device' = conc.w[w].candidate
        /\ conc' = [conc EXCEPT
              !.w[w] = IdleWorker,
              !.last = [serialized |-> conc.serialize,
                        reported |-> conc.w[w].diff,
                        actual |-> Diff(device, conc.w[w].candidate)],
              !.stale = conc.stale
                        \/ conc.w[w].diff # Diff(device, conc.w[w].candidate)]
    /\ UNCHANGED <<args, store, date, optsTest, pc, locals, ret, call, calls,
                   phase, trace, effective, stamp, loaded, err, storeLookups,
                   deviceContacts, shaped, devBefore, prev, inv, loader>>

InitConc ==
    /\ InitFrom({DefaultArgs("filter")}, {{}})
    /\ loader = Available
    /\ conc = [on |-> TRUE, serialize |-> TRUE,
               w |-> [w \in Workers |-> IdleWorker],
               last |-> NoReport, stale |-> FALSE]
NextConc ==
    \/ SwitchMode
    \/ ConcDiff
    \/ ConcApply
SpecConc == InitConc /\ [][NextConc]_vars

====
